---- MODULE Spec2Model ----
(***************************************************************************)
(* A model of conll2hf.py: the CoNLL splitter (split_conll), the CoNLL to  *)
(* JSON converter (conll_to_json) and the Flask handler that chains them   *)
(* (process_conll).                                                        *)
(*                                                                         *)
(* Text is modelled structurally.  A line is the sequence of its           *)
(* whitespace-separated fields (what line.strip().split() returns), so a   *)
(* blank line is <<>>.  A block is what split('\n\n') returns: a non-empty *)
(* sequence of lines; the single block of an empty file is <<Blank>>.      *)
(* A Python dict is the sequence of its <<key, value>> items in insertion  *)
(* order.  A split ratio r is the integer r * RatioDen; every ratio used   *)
(* is a float on which Python's int(total * r) and sum(ratio) > 1.0 agree  *)
(* with the exact arithmetic below.                                        *)
(***************************************************************************)
EXTENDS Integers, Sequences, FiniteSets, TLC

\* ------------------------------------------------------------------ bounds
MaxLines == 3
MaxBlocks == 4
MaxJobBlocks == 3

\* ------------------------------------------------------- generic helpers
Range(s) == {s[i] : i \in DOMAIN s}

Max(S) == CHOOSE x \in S : \A y \in S : y <= x

SeqsUpTo(S, n) == UNION {[1..k -> S] : k \in 0..n}

Injective(s) == \A i, j \in DOMAIN s : s[i] = s[j] => i = j

Perms(n) == {p \in [1..n -> 1..n] : Injective(p)}

\* data[lo:hi] of Python, for 0 <= lo and 0 <= hi (0-based, hi exclusive)
Slice(s, lo, hi) ==
    LET h == IF hi > Len(s) THEN Len(s) ELSE hi
    IN  IF lo >= h THEN <<>> ELSE SubSeq(s, lo + 1, h)

\* -------------------------------------------------------- Python dicts
Keys(m) == {m[i][1] : i \in DOMAIN m}

Values(m) == {m[i][2] : i \in DOMAIN m}

DictGet(m, k) == LET i == CHOOSE i \in DOMAIN m : m[i][1] = k IN m[i][2]

\* m[k] = v: an existing key keeps its position, a new key is appended
DictSet(m, k, v) ==
    IF k \in Keys(m)
    THEN [i \in DOMAIN m |-> IF m[i][1] = k THEN <<k, v>> ELSE m[i]]
    ELSE Append(m, <<k, v>>)

\* {key: value for key, value in items}: later items overwrite earlier ones
RECURSIVE DictFromItems(_)
DictFromItems(items) ==
    IF items = <<>> THEN <<>>
    ELSE LET n == Len(items)
         IN  DictSet(DictFromItems(SubSeq(items, 1, n - 1)),
                     items[n][1], items[n][2])

\* sorted(custom_mapping.items()): the items in increasing key order
RECURSIVE SortedItems(_)
SortedItems(m) ==
    IF m = <<>> THEN <<>>
    ELSE LET k == Max(Keys(m))
             rest == SelectSeq(m, LAMBDA it : it[1] # k)
         IN  Append(SortedItems(rest), <<k, DictGet(m, k)>>)

\* ----------------------------------------------------------- CoNLL text
Blank == <<>>

DocStartMarker == "-DOCSTART-"

DocStartLine == <<DocStartMarker, "-X-", "O", "O">>

L4(token, tag) == <<token, "-X-", "_", tag>>

L2(token, tag) == <<token, tag>>

\* line.startswith('-DOCSTART-'): the stripped line begins with its first field
LineStartsWithDocStart(line) == line # <<>> /\ line[1] = DocStartMarker

\* block.startswith("-DOCSTART-")
BlockStartsWithDocStart(block) == LineStartsWithDocStart(block[1])

FallbackTag == "O"

MinFieldsMut == 4 + 1

\* if len(parts) >= 4
MinFields == 4

\* ------------------------------------------------------------ variables
VARIABLES
    pc,               \* position of the running function
    mode,             \* entry point: "job", "split" or "conv"
    \* ---- the request and the environment
    ratiosParam,      \* form field 'ratios' split on ',' (<<>> when absent)
    customMapParam,   \* form field 'custom_map'
    upload,           \* request.files['file']: "ok", "empty" or "missing"
    modelConfig,      \* id2label of the latest ./models/*/config.json
    corpus,           \* blocks of the uploaded / input CoNLL file
    response,         \* HTTP status returned by process_conll (0: none yet)
    io,               \* file-system operations performed so far, in order
    \* ---- split_conll
    ratio, data, doc_start, shuffled,
    train_data, val_data, test_data, files_created,
    \* ---- process_conll
    custom_map,       \* the dict parsed from the request, shared by all calls
    todo,             \* splits still to convert
    json_results,     \* split name -> result of conll_to_json
    json_files,       \* split name -> records written to <split>.json
    class_mapping,    \* items last written to class_mapping.py
    \* ---- conll_to_json
    cur,              \* name of the file being converted
    seed,             \* history: the mapping the running call started from
    input,            \* its lines
    pos,              \* index of the next line the loop reads
    ignore_mismatch, custom_mapping, tag_dict, max_tag_id, new_entities,
    tag_counter, out, current_sentence, sentence_id

reqVars == <<ratiosParam, customMapParam, upload, modelConfig, corpus>>

splitVars == <<ratio, data, doc_start, shuffled,
               train_data, val_data, test_data, files_created>>

jobVars == <<custom_map, todo>>

outVars == <<json_results, json_files, class_mapping>>

convVars == <<cur, seed, input, pos, ignore_mismatch,
              custom_mapping, tag_dict, max_tag_id, new_entities, tag_counter,
              out, current_sentence, sentence_id>>

vars == <<pc, mode, reqVars, response, io, splitVars, jobVars,
          outVars, convVars>>

\* An optional dict: None is [present |-> FALSE, map |-> <<>>]
None == [present |-> FALSE, map |-> <<>>]

Some(m) == [present |-> TRUE, map |-> m]

\* ============================================================ conll_to_json
\* tag_dict = {v: k for k, v in custom_mapping.items()}: a later item wins
RECURSIVE InvertMapping(_)
InvertMapping(m) ==
    IF m = <<>> THEN <<>>
    ELSE LET n == Len(m)
         IN  (m[n][2] :> m[n][1]) @@ InvertMapping(SubSeq(m, 1, n - 1))

InitialMaxTagIdMut(m) == IF m = <<>> THEN 0 ELSE Max(Keys(m))

\* max(custom_mapping.keys()) if custom_mapping else -1
InitialMaxTagId(m) == IF m = <<>> THEN -1 ELSE Max(Keys(m))

NextTagIdMut(max) == max

\* max_tag_id += 1
NextTagId(max) == max + 1

CountedTagMut(original, resolved) == original

\* the key of tag_counter[ner_tag] += 1: ner_tag has been overwritten by the
\* fallback when the substitution took place
CountedTag(original, resolved) == resolved

NewSentence(n) == [id |-> ToString(n), tokens |-> <<>>, ner_tags |-> <<>>]

CounterInc(c, t) ==
    DictSet(c, t, (IF t \in Keys(c) THEN DictGet(c, t) ELSE 0) + 1)

\* an exception leaving the running function: the handler's except clause
\* answers 500, a direct caller sees the exception
Raise ==
    /\ pc' = IF mode = "job" THEN "done" ELSE "raised"
    /\ response' = IF mode = "job" THEN 500 ELSE response

\* lines 62-75
ConvStart ==
    /\ pc = "c_start"
    /\ LET m == IF custom_map.present THEN custom_map.map
                ELSE IF modelConfig.present THEN modelConfig.map
                ELSE <<>>
       IN  /\ custom_mapping' = m
           /\ seed' = m
           /\ tag_dict' = InvertMapping(m)
           /\ max_tag_id' = InitialMaxTagId(m)
    /\ out' = <<>>
    /\ sentence_id' = 0
    /\ current_sentence' = NewSentence(0)
    /\ tag_counter' = <<>>
    /\ new_entities' = {}
    /\ pos' = 1
    /\ io' = Append(io, <<"read", cur>>)
    /\ pc' = "c_loop"
    /\ UNCHANGED <<mode, reqVars, response, splitVars, jobVars, outVars,
                   cur, input, ignore_mismatch>>

\* lines 78-99: one iteration of the loop over the lines of the file
ConvLine ==
    /\ pc = "c_loop"
    /\ pos <= Len(input)
    /\ pos' = pos + 1
    /\ LET line == input[pos] IN
       IF LineStartsWithDocStart(line) \/ line = Blank
       THEN /\ IF current_sentence.tokens # <<>>
               THEN /\ out' = Append(out, current_sentence)
                    /\ sentence_id' = sentence_id + 1
                    /\ current_sentence' = NewSentence(sentence_id + 1)
               ELSE UNCHANGED <<out, sentence_id, current_sentence>>
            /\ UNCHANGED <<pc, response, custom_mapping, tag_dict, max_tag_id,
                           new_entities, tag_counter, custom_map>>
       ELSE IF Len(line) >= MinFields
       THEN LET token == line[1]
                ner_tag == line[4]
                withToken == [current_sentence EXCEPT
                                 !.tokens = Append(@, token)]
            IN  IF ner_tag \in DOMAIN tag_dict
                THEN /\ current_sentence' =
                           [withToken EXCEPT
                               !.ner_tags = Append(@, tag_dict[ner_tag])]
                     /\ tag_counter' =
                           CounterInc(tag_counter, CountedTag(ner_tag, ner_tag))
                     /\ UNCHANGED <<pc, response, custom_mapping, tag_dict,
                                    max_tag_id, new_entities, custom_map,
                                    out, sentence_id>>
                ELSE IF ignore_mismatch
                THEN LET id == NextTagId(max_tag_id) IN
                     /\ max_tag_id' = id
                     /\ tag_dict' = (ner_tag :> id) @@ tag_dict
                     /\ custom_mapping' = DictSet(custom_mapping, id, ner_tag)
                     \* the dict of the request is the same object
                     /\ custom_map' =
                           IF custom_map.present
                           THEN Some(DictSet(custom_mapping, id, ner_tag))
                           ELSE custom_map
                     /\ new_entities' = new_entities \cup {ner_tag}
                     /\ current_sentence' =
                           [withToken EXCEPT !.ner_tags = Append(@, id)]
                     /\ tag_counter' =
                           CounterInc(tag_counter, CountedTag(ner_tag, ner_tag))
                     /\ UNCHANGED <<pc, response, out, sentence_id>>
                ELSE IF FallbackTag \in DOMAIN tag_dict
                THEN /\ current_sentence' =
                           [withToken EXCEPT
                               !.ner_tags = Append(@, tag_dict[FallbackTag])]
                     /\ tag_counter' =
                           CounterInc(tag_counter,
                                      CountedTag(ner_tag, FallbackTag))
                     /\ UNCHANGED <<pc, response, custom_mapping, tag_dict,
                                    max_tag_id, new_entities, custom_map,
                                    out, sentence_id>>
                ELSE \* tag_dict['O'] raises KeyError
                     /\ current_sentence' = withToken
                     /\ Raise
                     /\ UNCHANGED <<custom_mapping, tag_dict, max_tag_id,
                                    new_entities, custom_map, tag_counter,
                                    out, sentence_id>>
       ELSE UNCHANGED <<pc, response, custom_mapping, tag_dict, max_tag_id,
                        new_entities, tag_counter, custom_map,
                        out, sentence_id, current_sentence>>
    /\ UNCHANGED <<mode, reqVars, io, splitVars, todo, outVars,
                   cur, seed, input, ignore_mismatch>>

\* the name of the .json file written for a .conll file
JsonName(name) ==
    CASE name = "train.conll" -> "train.json"
      [] name = "val.conll" -> "val.json"
      [] name = "test.conll" -> "test.json"
      [] OTHER -> "output.json"

\* lines 101-122, and line 241 in the handler
ConvFinish ==
    /\ pc = "c_loop"
    /\ pos > Len(input)
    /\ LET final == IF current_sentence.tokens # <<>>
                    THEN Append(out, current_sentence) ELSE out
       IN  /\ out' = final
           /\ json_files' = DictSet(json_files, cur, final)
           /\ class_mapping' = SortedItems(custom_mapping)
           /\ json_results' =
                 DictSet(json_results, cur,
                         [sentences_processed |-> Len(final),
                          unique_tags |-> Len(custom_mapping),
                          tag_counts |-> tag_counter,
                          new_entities |-> new_entities])
    /\ io' = io \o <<<<"write", JsonName(cur)>>,
                      <<"write", "class_mapping.py">>>>
    /\ pc' = IF mode = "job" THEN "j_loop" ELSE "done"
    /\ UNCHANGED <<mode, reqVars, response, splitVars, jobVars,
                   cur, seed, input, pos, ignore_mismatch, custom_mapping, tag_dict,
                   max_tag_id, new_entities, tag_counter, current_sentence,
                   sentence_id>>

\* the state no entry point has touched yet
Idle ==
    /\ response = 0
    /\ io = <<>>
    /\ data = <<>>
    /\ doc_start = 0
    /\ shuffled = FALSE
    /\ train_data = <<>>
    /\ val_data = <<>>
    /\ test_data = <<>>
    /\ files_created = <<>>
    /\ todo = <<>>
    /\ json_results = <<>>
    /\ json_files = <<>>
    /\ class_mapping = <<>>
    /\ pos = 1
    /\ seed = <<>>
    /\ custom_mapping = <<>>
    /\ tag_dict = <<>>
    /\ max_tag_id = -1
    /\ new_entities = {}
    /\ tag_counter = <<>>
    /\ out = <<>>
    /\ current_sentence = NewSentence(0)
    /\ sentence_id = 0

\* no request is being served
NoRequest ==
    /\ ratiosParam = <<>>
    /\ customMapParam = [kind |-> "absent", items |-> <<>>]
    /\ upload = "ok"

\* ------------------------------------------- conll_to_json called directly
Tags == {"B-PER", "B-LOC", FallbackTag}

SeedIds == {0, 2}

\* the dicts a caller or a model configuration can supply: at most one item
\* per id, in either insertion order, two ids possibly naming the same tag
Seeds == {m \in SeqsUpTo(SeedIds \X Tags, Cardinality(SeedIds)) :
             \A i, j \in DOMAIN m : m[i][1] = m[j][1] => i = j}

ConvLinePool == {Blank, DocStartLine, L4("w", "B-PER"), L4("w", "B-LOC"),
                 L4("w", FallbackTag), L2("w", FallbackTag)}

ScenarioTwoFields == <<L2("Alice", "B-PER"), L2("loves", "O"),
                       L2("Bob", "B-PER"), Blank, L2("No", "O")>>

ScenarioFourFields == <<L4("Alice", "B-PER"), L4("loves", "O"),
                        L4("Bob", "B-PER"), Blank, L4("No", "O")>>

ConvInputs == SeqsUpTo(ConvLinePool, MaxLines)
                 \cup {ScenarioTwoFields, ScenarioFourFields}

InitConv ==
    /\ Idle
    /\ NoRequest
    /\ corpus = <<>>
    /\ ratio = <<0, 0, 0>>
    /\ mode = "conv"
    /\ pc = "c_start"
    /\ cur = "input.conll"
    /\ input \in ConvInputs
    /\ ignore_mismatch \in BOOLEAN
    /\ \/ /\ custom_map \in {Some(m) : m \in Seeds}
          /\ modelConfig = None
       \/ /\ custom_map = None
          /\ modelConfig \in {None, Some(<<<<0, FallbackTag>>>>)}

NextConv == ConvStart \/ ConvLine \/ ConvFinish

SpecConv == InitConv /\ [][NextConv]_vars

\* ============================================================== split_conll
\* a ratio r is held as the integer r * RatioDen
RatioDen == 20

\* sum(ratio) > 1.0
RatioSumExceeds(r) == r[1] + r[2] + r[3] > RatioDen

\* int(total_length * r), r >= 0
IntTimes(total, r) == (total * r) \div RatioDen

TrainEndIdx(d, r) == IntTimes(Len(d), r[1])

ValEndIdx(d, r) == TrainEndIdx(d, r) + IntTimes(Len(d), r[2])

\* data[:train_end_idx] if ratio[0] > 0 else []
TrainData(d, r) == IF r[1] > 0 THEN Slice(d, 0, TrainEndIdx(d, r)) ELSE <<>>

ValDataMut(d, r) == IF r[2] > 0 THEN Slice(d, 0, ValEndIdx(d, r)) ELSE <<>>

\* data[train_end_idx:val_end_idx] if ratio[1] > 0 else []
ValData(d, r) ==
    IF r[2] > 0 THEN Slice(d, TrainEndIdx(d, r), ValEndIdx(d, r)) ELSE <<>>

TestDataMut(d, r) == Slice(d, ValEndIdx(d, r), Len(d))

\* data[val_end_idx:] if ratio[2] > 0 else []
TestData(d, r) == IF r[3] > 0 THEN Slice(d, ValEndIdx(d, r), Len(d)) ELSE <<>>

AddDocStartMut(split, ds) == IF ds # 0 THEN <<ds>> \o split ELSE split

\* if split_data: split_data.insert(0, doc_start), under if doc_start
AddDocStart(split, ds) ==
    IF ds # 0 /\ split # <<>> THEN <<ds>> \o split ELSE split

\* lines 128-131; the except clause of line 172 re-raises
SplitCheck ==
    /\ pc = "s_check"
    /\ io' = Append(io, <<"mkdir", "conll_files">>)
    /\ IF RatioSumExceeds(ratio)
       THEN Raise
       ELSE pc' = "s_read" /\ UNCHANGED response
    /\ UNCHANGED <<mode, reqVars, splitVars, jobVars, outVars, convVars>>

\* lines 133-139: a block is held in data as its position in the file
SplitRead ==
    /\ pc = "s_read"
    /\ io' = Append(io, <<"read", "input.conll">>)
    /\ LET all == [i \in 1..Len(corpus) |-> i]
           ds == IF BlockStartsWithDocStart(corpus[1]) THEN 1 ELSE 0
       IN  /\ doc_start' = ds
           /\ data' = IF ds # 0 THEN Tail(all) ELSE all
    /\ pc' = "s_shuffle"
    /\ UNCHANGED <<mode, reqVars, response, ratio, shuffled, train_data,
                   val_data, test_data, files_created, jobVars, outVars,
                   convVars>>

\* line 141: random.shuffle leaves data in any order
SplitShuffle ==
    /\ pc = "s_shuffle"
    /\ \E p \in Perms(Len(data)) : data' = [i \in 1..Len(data) |-> data[p[i]]]
    /\ shuffled' = TRUE
    /\ pc' = "s_part"
    /\ UNCHANGED <<mode, reqVars, response, io, ratio, doc_start, train_data,
                   val_data, test_data, files_created, jobVars, outVars,
                   convVars>>

\* lines 143-156
SplitPartition ==
    /\ pc = "s_part"
    /\ train_data' = AddDocStart(TrainData(data, ratio), doc_start)
    /\ val_data' = AddDocStart(ValData(data, ratio), doc_start)
    /\ test_data' = AddDocStart(TestData(data, ratio), doc_start)
    /\ pc' = "s_write"
    /\ UNCHANGED <<mode, reqVars, response, io, ratio, data, doc_start,
                   shuffled, files_created, jobVars, outVars, convVars>>

\* the entry of files_created and the file written for one group
Created(name, group) == IF group # <<>> THEN <<<<name, Len(group)>>>> ELSE <<>>

Written(name, group) == IF group # <<>> THEN <<<<"write", name>>>> ELSE <<>>

\* lines 159-170
SplitWrite ==
    /\ pc = "s_write"
    /\ io' = io \o Written("train.conll", train_data)
                \o Written("val.conll", val_data)
                \o Written("test.conll", test_data)
    /\ files_created' = Created("train.conll", train_data)
                           \o Created("val.conll", val_data)
                           \o Created("test.conll", test_data)
    /\ pc' = IF mode = "job" THEN "j_split_ret" ELSE "done"
    /\ UNCHANGED <<mode, reqVars, response, ratio, data, doc_start, shuffled,
                   train_data, val_data, test_data, jobVars, outVars,
                   convVars>>

\* ---------------------------------------------- split_conll called directly
DocStartBlock == <<DocStartLine>>

SentenceBlock == <<L4("w", "B-PER")>>

EmptyFile == <<<<Blank>>>>

SplitCorpora ==
    {c \in SeqsUpTo({DocStartBlock, SentenceBlock}, MaxBlocks) : c # <<>>}
        \cup {EmptyFile}

\* the ratios 0, 0.25, 0.5, 0.75 and 1
RatioVals == {0, 5, 10, 15, 20}

InitSplit ==
    /\ Idle
    /\ NoRequest
    /\ mode = "split"
    /\ pc = "s_check"
    /\ modelConfig = None
    /\ corpus \in SplitCorpora
    /\ ratio \in RatioVals \X RatioVals \X RatioVals
    /\ custom_map = None
    /\ cur = ""
    /\ input = <<>>
    /\ ignore_mismatch = FALSE

NextSplit ==
    SplitCheck \/ SplitRead \/ SplitShuffle \/ SplitPartition \/ SplitWrite

SpecSplit == InitSplit /\ [][NextSplit]_vars

\* ============================================================ process_conll
\* a component of the 'ratios' field: float(x) raises ValueError unless num
Num(v) == [num |-> TRUE, val |-> v]

NotANumber == [num |-> FALSE, val |-> 0]

\* (0.7, 0.15, 0.15)
DefaultRatios == <<14, 3, 3>>

\* the handler returns jsonify(...), status
Respond(status) == pc' = "done" /\ response' = status

\* lines 184-189: the generator converts every component before len is tested
JobParseRatios ==
    /\ pc = "j_ratios"
    /\ IF ratiosParam = <<>>
       THEN /\ ratio' = DefaultRatios
            /\ pc' = "j_map"
            /\ UNCHANGED response
       ELSE IF \E i \in DOMAIN ratiosParam : ~ratiosParam[i].num
       THEN Raise /\ UNCHANGED ratio
       ELSE IF Len(ratiosParam) # 3
       THEN Respond(400) /\ UNCHANGED ratio
       ELSE /\ ratio' = [i \in 1..3 |-> ratiosParam[i].val]
            /\ pc' = "j_map"
            /\ UNCHANGED response
    /\ UNCHANGED <<mode, reqVars, io, data, doc_start, shuffled, train_data,
                   val_data, test_data, files_created, jobVars, outVars,
                   convVars>>

\* lines 192-198: only json.JSONDecodeError is caught here; .items() on a
\* value that is no object and int() on a key that is no integer raise to
\* the handler's except clause
JobParseCustomMap ==
    /\ pc = "j_map"
    /\ CASE customMapParam.kind = "absent" ->
               /\ custom_map' = None
               /\ pc' = "j_dirs"
               /\ UNCHANGED response
         [] customMapParam.kind = "badjson" ->
               Respond(400) /\ UNCHANGED custom_map
         [] customMapParam.kind \in {"notobject", "badkey"} ->
               Raise /\ UNCHANGED custom_map
         [] OTHER ->
               /\ custom_map' = Some(DictFromItems(customMapParam.items))
               /\ pc' = "j_dirs"
               /\ UNCHANGED response
    /\ UNCHANGED <<mode, reqVars, io, splitVars, todo, outVars, convVars>>

\* lines 201-203, with the makedirs of create_data_directory (lines 15, 33)
JobCreateDirs ==
    /\ pc = "j_dirs"
    /\ io' = io \o <<<<"mkdir", "data">>, <<"mkdir", "output_dir">>,
                     <<"mkdir", "conll_files">>>>
    /\ pc' = "j_save"
    /\ UNCHANGED <<mode, reqVars, response, splitVars, jobVars, outVars,
                   convVars>>

\* lines 206-212: request.files['file'] raises when the field is missing
JobSaveUpload ==
    /\ pc = "j_save"
    /\ CASE upload = "missing" -> Raise /\ UNCHANGED io
         [] upload = "empty" -> Respond(400) /\ UNCHANGED io
         [] OTHER -> /\ io' = Append(io, <<"write", "input.conll">>)
                     /\ pc' = "s_check"
                     /\ UNCHANGED response
    /\ UNCHANGED <<mode, reqVars, splitVars, jobVars, outVars, convVars>>

\* lines 218-227
JobAfterSplit ==
    /\ pc = "j_split_ret"
    /\ todo' = [i \in DOMAIN files_created |-> files_created[i][1]]
    /\ json_results' = <<>>
    /\ pc' = "j_loop"
    /\ UNCHANGED <<mode, reqVars, response, io, splitVars, custom_map,
                   json_files, class_mapping, convVars>>

GroupOf(name) ==
    CASE name = "train.conll" -> train_data
      [] name = "val.conll" -> val_data
      [] OTHER -> test_data

\* the lines of a file written by write_to_file: '\n\n'.join(data) + '\n'
RECURSIVE FileLines(_)
FileLines(group) ==
    IF group = <<>> THEN <<>>
    ELSE IF Len(group) = 1 THEN corpus[group[1]]
    ELSE FileLines(SubSeq(group, 1, Len(group) - 1))
            \o <<Blank>> \o corpus[group[Len(group)]]

\* lines 229-239: the call of conll_to_json for the next split
JobConvertNext ==
    /\ pc = "j_loop"
    /\ todo # <<>>
    /\ cur' = Head(todo)
    /\ todo' = Tail(todo)
    /\ input' = FileLines(GroupOf(Head(todo)))
    /\ ignore_mismatch' = TRUE
    /\ pc' = "c_start"
    /\ UNCHANGED <<mode, reqVars, response, io, splitVars, custom_map, outVars,
                   seed, pos, custom_mapping, tag_dict, max_tag_id,
                   new_entities, tag_counter, out, current_sentence,
                   sentence_id>>

\* lines 243-252
JobRespond ==
    /\ pc = "j_loop"
    /\ todo = <<>>
    /\ Respond(200)
    /\ UNCHANGED <<mode, reqVars, io, splitVars, jobVars, outVars, convVars>>

\* ------------------------------------------------------------ the requests
JobBlockPool == {DocStartBlock, SentenceBlock,
                 <<L4("w", FallbackTag), L4("w", "B-PER")>>}

JobCorpora == {c \in SeqsUpTo(JobBlockPool, MaxJobBlocks) : c # <<>>}

JobRatios == {<<>>,
              <<Num(10), Num(10), Num(0)>>,
              <<Num(10), Num(5), Num(5)>>,
              <<Num(20), Num(5), Num(0)>>,
              <<Num(10), Num(10)>>,
              <<Num(10), NotANumber, Num(5)>>,
              <<NotANumber, Num(10)>>}

JobCustomMaps == {[kind |-> "absent", items |-> <<>>],
                  [kind |-> "badjson", items |-> <<>>],
                  [kind |-> "notobject", items |-> <<>>],
                  [kind |-> "badkey", items |-> <<>>],
                  [kind |-> "object", items |-> <<>>],
                  [kind |-> "object", items |-> <<<<0, FallbackTag>>>>]}

InitJob ==
    /\ Idle
    /\ ratio = <<0, 0, 0>>
    /\ mode = "job"
    /\ pc = "j_ratios"
    /\ ratiosParam \in JobRatios
    /\ customMapParam \in JobCustomMaps
    /\ upload \in {"ok", "empty", "missing"}
    /\ modelConfig \in {None, Some(<<<<0, FallbackTag>>>>)}
    /\ corpus \in JobCorpora
    /\ custom_map = None
    /\ cur = ""
    /\ input = <<>>
    /\ ignore_mismatch = FALSE

NextJob ==
    \/ JobParseRatios \/ JobParseCustomMap \/ JobCreateDirs \/ JobSaveUpload
    \/ SplitCheck \/ SplitRead \/ SplitShuffle \/ SplitPartition \/ SplitWrite
    \/ JobAfterSplit \/ JobConvertNext \/ JobRespond
    \/ ConvStart \/ ConvLine \/ ConvFinish

SpecJob == InitJob /\ [][NextJob]_vars

\* ================================================= properties of conll_to_json
\* the tags of the data lines among the first n lines, in reading order: a
\* data line is neither blank nor a -DOCSTART- line and has a field 3
RECURSIVE TagsRead(_, _)
TagsRead(lines, n) ==
    IF n = 0 THEN <<>>
    ELSE LET line == lines[n]
             before == TagsRead(lines, n - 1)
         IN  IF line # <<>> /\ line[1] # DocStartMarker /\ Len(line) >= 4
             THEN Append(before, line[4]) ELSE before

\* the distinct elements of a sequence in order of first occurrence
RECURSIVE FirstSeen(_)
FirstSeen(s) ==
    IF s = <<>> THEN <<>>
    ELSE LET n == Len(s)
             before == FirstSeen(SubSeq(s, 1, n - 1))
         IN  IF s[n] \in Range(before) THEN before ELSE Append(before, s[n])

IndexOf(s, x) == CHOOSE i \in DOMAIN s : s[i] = x

RECURSIVE FlattenTags(_)
FlattenTags(records) ==
    IF records = <<>> THEN <<>>
    ELSE FlattenTags(SubSeq(records, 1, Len(records) - 1))
            \o records[Len(records)].ner_tags

\* the tag ids emitted so far, over all sentences, in reading order
EmittedIds ==
    FlattenTags(out) \o (IF pc = "c_loop" THEN current_sentence.ner_tags
                         ELSE <<>>)

CountOf(c, t) == IF t \in Keys(c) THEN DictGet(c, t) ELSE 0

Converting == mode = "conv" /\ pc \in {"c_loop", "done"}

NoSharedTag(m) == \A i, j \in DOMAIN m : m[i][2] = m[j][2] => i = j

\* tag_dict maps every tag of custom_mapping to an id that names it
RightInverse(m, td) ==
    /\ DOMAIN td = Values(m)
    /\ \A t \in DOMAIN td : td[t] \in Keys(m) /\ DictGet(m, td[t]) = t

IsBijection(m, td) ==
    /\ NoSharedTag(m)
    /\ RightInverse(m, td)
    /\ \A k \in Keys(m) : td[DictGet(m, k)] = k

\* C4, as stated: in every state of a conversion, whatever mapping seeded the
\* registry, custom_mapping and tag_dict are inverse bijections.
C4_BijectionForAnySeed ==
    (mode = "conv" /\ pc \in {"c_loop", "done", "raised"})
        => IsBijection(custom_mapping, tag_dict)

\* C4, amended: in every state of a conversion tag_dict is a right inverse of
\* custom_mapping (same tags, and custom_mapping[tag_dict[t]] = t), and the
\* two are inverse bijections whenever no two ids of the seed share a tag.
C4_BijectionForInjectiveSeed ==
    (mode = "conv" /\ pc \in {"c_loop", "done", "raised"})
        => /\ RightInverse(custom_mapping, tag_dict)
           /\ NoSharedTag(seed) => IsBijection(custom_mapping, tag_dict)

C4_Witness ==
    /\ Converting
    /\ seed # <<>>
    /\ NoSharedTag(seed)
    /\ Cardinality(new_entities) >= 2
    /\ IsBijection(custom_mapping, tag_dict)

\* C7: from an empty registry with dynamic registration, the N distinct tags
\* read so far have the ids 0..N-1 in order of first occurrence, every token
\* carries the id of its tag (a repeated tag reuses its id), and whatever the
\* seed, max_tag_id is max(existing ids, -1), so a new id is that plus one.
C7_FirstSeenIds ==
    (Converting /\ ignore_mismatch) =>
        /\ max_tag_id = Max(Keys(custom_mapping) \cup {-1})
        /\ seed = <<>> =>
              LET read == TagsRead(input, pos - 1)
                  first == FirstSeen(read)
              IN  /\ custom_mapping =
                        [i \in 1..Len(first) |-> <<i - 1, first[i]>>]
                  /\ EmittedIds =
                        [i \in 1..Len(read) |-> IndexOf(first, read[i]) - 1]
                  /\ new_entities = Range(first)

C7_Witness ==
    /\ Converting
    /\ ignore_mismatch
    /\ seed = <<>>
    /\ Cardinality(new_entities) >= 2
    /\ Len(EmittedIds) > Cardinality(new_entities)

SentenceTagIds == [i \in 1..Len(out) |-> out[i].ner_tags]

ScenarioResult ==
    /\ SentenceTagIds = << <<0, 1, 0>>, <<1>> >>
    /\ custom_mapping = << <<0, "B-PER">>, <<1, "O">> >>
    /\ new_entities = {"B-PER", "O"}

ScenarioRun(lines) ==
    mode = "conv" /\ pc = "done" /\ input = lines /\ seed = <<>>
        /\ ignore_mismatch

\* C8, as stated: the scenario input with two fields per data line converts
\* to two sentences with B-PER=0, O=1, tag ids [0,1,0] and [1].
C8_TwoFieldScenario == ScenarioRun(ScenarioTwoFields) => ScenarioResult

\* C8, amended: the scenario input with two fields per data line converts to
\* no sentence and registers no tag (every line has fewer than 4 fields); the
\* same input with four fields per data line, the tag in field 3, converts to
\* two sentences with B-PER=0, O=1, tag ids [0,1,0] and [1] and newly
\* discovered tags {B-PER, O}.
C8_FourFieldScenario ==
    /\ ScenarioRun(ScenarioFourFields) => ScenarioResult
    /\ ScenarioRun(ScenarioTwoFields) =>
          out = <<>> /\ custom_mapping = <<>> /\ new_entities = {}

C8_Witness == ScenarioRun(ScenarioFourFields) /\ Len(out) = 2

\* the tag a token is emitted under when registration is disabled
Resolved(tag) == IF tag \in DOMAIN tag_dict THEN tag ELSE FallbackTag

FallbackIds(read) == [i \in 1..Len(read) |-> tag_dict[Resolved(read[i])]]

\* C9, as stated: with registration disabled a token with an unregistered tag
\* is emitted with the id of 'O' and counted under its original tag.
C9_CountedUnderOriginal ==
    (Converting /\ ~ignore_mismatch) =>
        LET read == TagsRead(input, pos - 1)
        IN  /\ EmittedIds = FallbackIds(read)
            /\ \A t \in Range(read) :
                  CountOf(tag_counter, t) =
                     Cardinality({i \in DOMAIN read : read[i] = t})

\* C9, amended: with registration disabled a token with an unregistered tag
\* is emitted with the id of 'O' and counted under 'O', the tag after the
\* substitution; when 'O' itself is unregistered the conversion raises.
C9_CountedUnderFallback ==
    /\ (Converting /\ ~ignore_mismatch) =>
          LET read == TagsRead(input, pos - 1)
          IN  /\ EmittedIds = FallbackIds(read)
              /\ \A t \in Range(read) \cup {FallbackTag} :
                    CountOf(tag_counter, t) =
                       Cardinality({i \in DOMAIN read : Resolved(read[i]) = t})
    /\ (mode = "conv" /\ pc = "raised") =>
          ~ignore_mismatch /\ FallbackTag \notin DOMAIN tag_dict

C9_Witness ==
    /\ Converting
    /\ ~ignore_mismatch
    /\ pc = "done"
    /\ \E t \in Range(TagsRead(input, Len(input))) :
          t \notin DOMAIN tag_dict /\ CountOf(tag_counter, FallbackTag) >= 2

\* =================================================== properties of split_conll
SplitDone == mode = "split" /\ pc = "done"

\* a group without the detached marker block
Body(group) == SelectSeq(group, LAMBDA b : b # doc_start)

\* the sentence-blocks of the three outputs, marker ignored
OutputBlocks == Body(train_data) \o Body(val_data) \o Body(test_data)

\* the input blocks, the detached marker block ignored
InputBlocks == {b \in DOMAIN corpus : b # doc_start}

NamesCreated == {files_created[i][1] : i \in DOMAIN files_created}

\* C1, as stated: for every ratio triple of sum <= 1.0 the blocks of the
\* three outputs are exactly the input blocks, each once.
C1_EveryBlockKept ==
    SplitDone =>
        /\ Len(OutputBlocks) = Cardinality(InputBlocks)
        /\ Injective(OutputBlocks)
        /\ Range(OutputBlocks) = InputBlocks

\* C1, amended: for every ratio triple of sum <= 1.0 no block is in two
\* outputs or twice in one, every output block is an input block, and the
\* outputs hold all the input blocks when the test ratio is positive; when it
\* is 0 they hold floor(total * train) + floor(total * val) of them and the
\* rest is dropped.
C1_NoDuplicateAndKeptCount ==
    SplitDone =>
        LET total == Cardinality(InputBlocks)
            kept == (total * ratio[1]) \div RatioDen
                       + (total * ratio[2]) \div RatioDen
        IN  /\ Injective(OutputBlocks)
            /\ Range(OutputBlocks) \subseteq InputBlocks
            /\ ratio[3] > 0 => Range(OutputBlocks) = InputBlocks
            /\ ratio[3] = 0 => Len(OutputBlocks) = kept

C1_Witness ==
    /\ SplitDone
    /\ Body(train_data) # <<>>
    /\ Body(val_data) # <<>>
    /\ Len(Body(test_data)) >= 2
    /\ Range(OutputBlocks) = InputBlocks

GroupAbsent(name, group) ==
    /\ group = <<>>
    /\ name \notin NamesCreated
    /\ <<"write", name>> \notin Range(io)

\* C6: a split whose ratio is exactly 0 gets an empty group, no file and no
\* entry in files_created, whatever its index slice holds; ratios
\* (0.5, 0.5, 0.0) on 4 sentence-blocks give no test output while train and
\* val together hold all 4 blocks exactly once.
C6_ZeroRatioEmitsNothing ==
    SplitDone =>
        /\ ratio[1] = 0 => GroupAbsent("train.conll", train_data)
        /\ ratio[2] = 0 => GroupAbsent("val.conll", val_data)
        /\ ratio[3] = 0 => GroupAbsent("test.conll", test_data)
        /\ (/\ 2 * ratio[1] = RatioDen
            /\ 2 * ratio[2] = RatioDen
            /\ ratio[3] = 0
            /\ Cardinality(InputBlocks) = 4) =>
               /\ GroupAbsent("test.conll", test_data)
               /\ Injective(Body(train_data) \o Body(val_data))
               /\ Range(Body(train_data) \o Body(val_data)) = InputBlocks

\* the zero-ratio test split whose slice data[val_end_idx:] is not empty
C6_Witness ==
    /\ SplitDone
    /\ ratio[3] = 0
    /\ ratio[1] > 0
    /\ ValEndIdx(data, ratio) < Len(data)
    /\ test_data = <<>>
    /\ NamesCreated = {"train.conll"}

MarkerFirstOnce(group) ==
    group # <<>> =>
        /\ group[1] = doc_start
        /\ Cardinality({i \in DOMAIN group : group[i] = doc_start}) = 1
        /\ Len(group) >= 2

\* C10: when the corpus begins with a -DOCSTART- block, the block is detached
\* before the shuffle and is in neither the shuffled list nor the ratio
\* partition; afterwards every non-empty group has it as first block exactly
\* once, and a group that got no sentence-block stays empty and is not emitted.
C10_MarkerHeadsNonEmptyGroups ==
    (mode = "split" /\ BlockStartsWithDocStart(corpus[1])) =>
        /\ pc \in {"s_shuffle", "s_part", "s_write", "done"} =>
              doc_start = 1 /\ doc_start \notin Range(data)
        /\ shuffled => pc \in {"s_part", "s_write", "done"}
        /\ pc \in {"s_write", "done"} =>
              /\ MarkerFirstOnce(train_data)
              /\ MarkerFirstOnce(val_data)
              /\ MarkerFirstOnce(test_data)
        /\ pc = "done" =>
              /\ train_data = <<>> <=> "train.conll" \notin NamesCreated
              /\ val_data = <<>> <=> "val.conll" \notin NamesCreated
              /\ test_data = <<>> <=> "test.conll" \notin NamesCreated

C10_Witness ==
    /\ SplitDone
    /\ doc_start = 1
    /\ Len(train_data) >= 2
    /\ train_data[1] = doc_start
    /\ val_data = <<>>
    /\ Len(test_data) >= 2
    /\ NamesCreated = {"train.conll", "test.conll"}

\* ================================================= properties of process_conll
JobDone == mode = "job" /\ pc = "done"

\* the tags of the tokens of a split file, in reading order
OriginalTags(name) ==
    LET lines == FileLines(GroupOf(name)) IN TagsRead(lines, Len(lines))

\* the tag ids of the records of <split>.json decoded with class_mapping.py
DecodesTo(records, tags) ==
    LET ids == FlattenTags(records)
    IN  /\ Len(ids) = Len(tags)
        /\ \A i \in DOMAIN ids :
              /\ ids[i] \in Keys(class_mapping)
              /\ DictGet(class_mapping, ids[i]) = tags[i]

\* C2: after a job has converted its splits, decoding the tag ids of every
\* record of every split with the tag table last written to class_mapping.py
\* gives back the original tag of every token, with or without a custom_map
\* in the request.
C2_RoundTripWithFinalTable ==
    (JobDone /\ response = 200) =>
        \A name \in NamesCreated :
            /\ name \in Keys(json_files)
            /\ DecodesTo(DictGet(json_files, name), OriginalTags(name))

MalformedRatios ==
    /\ ratiosParam # <<>>
    /\ \/ Len(ratiosParam) # 3
       \/ \E i \in DOMAIN ratiosParam : ~ratiosParam[i].num

MalformedCustomMap == customMapParam.kind \in {"badjson", "notobject", "badkey"}

\* C3: a job whose ratios sum to more than 1.0 (the request being well formed
\* otherwise) fails with a reported error, having done no file I/O and no
\* shuffle.
C3_RatioErrorBeforeAnyIO ==
    (JobDone /\ ~MalformedRatios /\ ratiosParam # <<>>
        /\ RatioSumExceeds([i \in 1..3 |-> ratiosParam[i].val])
        /\ ~MalformedCustomMap /\ upload = "ok") =>
        /\ response \in {400, 500}
        /\ io = <<>>
        /\ ~shuffled

\* C5: a job with a malformed ratios field or a malformed custom_map payload
\* ends in a 400 returned before any processing; a 500 comes only from an
\* exception raised during processing.
C5_MalformedInputIsClientError ==
    JobDone =>
        /\ (MalformedRatios \/ MalformedCustomMap) =>
              response = 400 /\ io = <<>>
        /\ response = 500 => ~(MalformedRatios \/ MalformedCustomMap)

====
